---- MODULE Spec2Model ----
(***************************************************************************)
(* A model of src/src/mfa/mod.rs: generate_random_string, generate and     *)
(* verify of the MFA helper, called from two threads.                      *)
(*                                                                         *)
(* A String is a sequence of one-character strings, a Vec<u8> a sequence   *)
(* of numbers in 0..255.  The calls into totp_rs (Rfc6238::with_defaults,  *)
(* Rfc6238::digits, TOTP::from_rfc6238, TOTP::generate, get_qr_base64) are *)
(* modelled by their contract at the line that makes the call.  HMAC-SHA1  *)
(* is replaced by a small keyed digest (HmacSha1 below): a deterministic   *)
(* function of the key bytes and the 8 message bytes under which, as under *)
(* any hash cut to 6 digits, two counters may share a code.                *)
(*                                                                         *)
(* A call is a sequence of steps that meet the outside only where the      *)
(* code does: at the random draw, at the renderer and at the clock.  The   *)
(* steps of the calls of the two threads interleave freely.  A thread      *)
(* keeps the frame of its last call until it starts the next one.          *)
(***************************************************************************)
EXTENDS Integers, Sequences, FiniteSets, TLC

\* ---------------------------------------------------------------- bounds

\* The clock reads from -1 (a reading before the Unix epoch) to MaxTime.
MaxTime == 31

\* The number of calls started in one behaviour.
MaxCalls == 2

\* The strides of the byte patterns the hex encoding is checked on.
MaxStride == 3

\* ------------------------------------------------------ program constants

\* let random_bytes: [u8; 32]
NumBytes == 32

\* rfc.digits(6)
Digits == 6

\* Rfc6238::with_defaults: the step, in seconds
Step == 30

\* Rfc6238::with_defaults: the least secret length, in bytes (128 bits)
MinSecretLen == 16

\* ------------------------------------------------------------------- state

VARIABLES
    now,        \* the least the clock may read next: its last reading
    calls,      \* per thread: the call it runs, its arguments and locals
    issued,     \* the pairs generate has returned to its caller
    accepted,   \* the verifications that returned Ok(true): code, secret, time
    started,    \* the number of calls started
    drawn,      \* the hex encoding alone: the bytes drawn
    encoded     \* the hex encoding alone: the string returned, once made

vars == <<now, calls, issued, accepted, started, drawn, encoded>>

\* ---------------------------------------------------------------- strings

HexDigits == <<"0", "1", "2", "3", "4", "5", "6", "7", "8", "9",
               "a", "b", "c", "d", "e", "f">>

DecDigits == <<"0", "1", "2", "3", "4", "5", "6", "7", "8", "9">>

\* format!("{:x}", b): no padding.
FormatHexNoPad(b) ==
    IF b < 16 THEN <<HexDigits[b + 1]>>
    ELSE <<HexDigits[(b \div 16) + 1], HexDigits[(b % 16) + 1]>>

\* format!("{:02x}", b): two lowercase hex digits, zero-padded.
FormatHex02(b) == <<HexDigits[(b \div 16) + 1], HexDigits[(b % 16) + 1]>>

\* random_bytes.iter().map(|b| format!("{:02x}", b)).collect()
RECURSIVE HexRange(_, _, _)
HexRange(bytes, lo, hi) ==
    IF lo > hi THEN <<>>
    ELSE IF lo = hi THEN FormatHex02(bytes[lo])
    ELSE LET mid == (lo + hi) \div 2
         IN  HexRange(bytes, lo, mid) \o HexRange(bytes, mid + 1, hi)

HexEncode(bytes) == HexRange(bytes, 1, Len(bytes))

\* The UTF-8 encoding of one character.
Utf8(ch) ==
    CASE ch = " " -> <<32>>
      [] ch = "0" -> <<48>> [] ch = "1" -> <<49>> [] ch = "2" -> <<50>>
      [] ch = "3" -> <<51>> [] ch = "4" -> <<52>> [] ch = "5" -> <<53>>
      [] ch = "6" -> <<54>> [] ch = "7" -> <<55>> [] ch = "8" -> <<56>>
      [] ch = "9" -> <<57>> [] ch = ":" -> <<58>>
      [] ch = "A" -> <<65>> [] ch = "B" -> <<66>> [] ch = "F" -> <<70>>
      [] ch = "a" -> <<97>> [] ch = "b" -> <<98>> [] ch = "c" -> <<99>>
      [] ch = "d" -> <<100>> [] ch = "e" -> <<101>> [] ch = "f" -> <<102>>
      [] ch = "é" -> <<195, 169>>

\* String::into_bytes: the UTF-8 bytes of the string, in order.
RECURSIVE Utf8Range(_, _, _)
Utf8Range(s, lo, hi) ==
    IF lo > hi THEN <<>>
    ELSE IF lo = hi THEN Utf8(s[lo])
    ELSE LET mid == (lo + hi) \div 2
         IN  Utf8Range(s, lo, mid) \o Utf8Range(s, mid + 1, hi)

into_bytes(s) == Utf8Range(s, 1, Len(s))

\* ------------------------------------------------------------------ Result

\* Result<T, E>: Ok carries one value and no error, Err one error and no value.
Ok(v) == [tag |-> "Ok", val |-> {v}, err |-> {}]
Err(e) == [tag |-> "Err", val |-> {}, err |-> {e}]
NoResult == [tag |-> "none", val |-> {}, err |-> {}]
IsOk(r) == r.tag = "Ok"
IsErr(r) == r.tag = "Err"
Unwrap(r) == CHOOSE v \in r.val : TRUE

\* ------------------------------------------------------------------ totp_rs

\* The Rfc6238 / TOTP value before it is built.
NoTotp == [algorithm |-> "none", digits |-> 0, skew |-> 0, step |-> 0,
           secret |-> <<>>, issuer |-> <<>>, account_name |-> <<>>]

\* Rfc6238::with_defaults(secret): SHA1, 6 digits, skew 1, step 30, no labels;
\* a secret under 128 bits is refused.
Rfc6238WithDefaults(secret) ==
    IF Len(secret) < MinSecretLen
    THEN Err("SecretTooSmall")
    ELSE Ok([algorithm |-> "SHA1", digits |-> 6, skew |-> 1, step |-> Step,
             secret |-> secret, issuer |-> <<>>, account_name |-> <<>>])

\* rfc.digits(value)?: 6 to 8 digits are accepted.
RfcDigits(rfc, value) ==
    IF value < 6 \/ value > 8
    THEN Err("InvalidDigits")
    ELSE Ok([rfc EXCEPT !.digits = value])

\* rfc.issuer(issuer)
RfcIssuer(rfc, issuer) == [rfc EXCEPT !.issuer = issuer]

\* rfc.account_name(account_name)
RfcAccountName(rfc, account_name) == [rfc EXCEPT !.account_name = account_name]

Contains(s, ch) == \E i \in 1..Len(s) : s[i] = ch

\* TOTP::from_rfc6238(rfc)?: the checks of TOTP::new on the built parameters.
TotpFromRfc6238(rfc) ==
    IF rfc.digits < 6 \/ rfc.digits > 8 THEN Err("InvalidDigits")
    ELSE IF Len(rfc.secret) < MinSecretLen THEN Err("SecretTooSmall")
    ELSE IF Contains(rfc.issuer, ":") THEN Err("Issuer")
    ELSE IF Contains(rfc.account_name, ":") THEN Err("AccountName")
    ELSE Ok(rfc)

\* u64::to_be_bytes, the low `n` bytes of it.
RECURSIVE BeBytes(_, _)
BeBytes(v, n) ==
    IF n = 0 THEN <<>> ELSE BeBytes(v \div 256, n - 1) \o <<v % 256>>

to_be_bytes(v) == BeBytes(v, 8)

\* The bytes lo..hi, each weighted by its place, summed.
RECURSIVE Absorb(_, _, _)
Absorb(bytes, lo, hi) ==
    IF lo > hi THEN 0
    ELSE IF lo = hi THEN (lo + 2) * bytes[lo]
    ELSE LET mid == (lo + hi) \div 2
         IN  Absorb(bytes, lo, mid) + Absorb(bytes, mid + 1, hi)

\* The keyed digest standing for HMAC-SHA1: 20 bytes, a function of the key
\* and the message alone.  Halving the absorbed value makes neighbouring
\* messages collide for some keys, as a 6-digit code can.
HmacSha1(key, msg) ==
    LET h == (Absorb(key, 1, Len(key)) * 31 + Absorb(msg, 1, Len(msg))) \div 20
    IN  [j \in 1..20 |-> ((h + 1) * (j + 2) + (h \div 251)) % 256]

Pow10(n) == IF n = 6 THEN 1000000 ELSE IF n = 7 THEN 10000000 ELSE 100000000

\* format!("{1:00$}", digits, value): decimal, zero-padded to `digits` places.
RECURSIVE FormatDec(_, _)
FormatDec(value, digits) ==
    IF digits = 0 THEN <<>>
    ELSE FormatDec(value \div 10, digits - 1) \o <<DecDigits[(value % 10) + 1]>>

\* totp.generate(time) signing the time itself, not the step it falls in.
TotpGenerateBySecond(totp, time) ==
    LET result == HmacSha1(totp.secret, to_be_bytes(time))
        offset == result[20] % 16
        bin    == (result[offset + 1] % 128) * 16777216
                  + result[offset + 2] * 65536
                  + result[offset + 3] * 256
                  + result[offset + 4]
    IN  FormatDec(bin % Pow10(totp.digits), totp.digits)

\* totp.generate(time): sign time / step, cut dynamically to 31 bits, keep
\* the last `digits` decimal places.
TotpGenerate(totp, time) ==
    LET result == HmacSha1(totp.secret, to_be_bytes(time \div totp.step))
        offset == result[20] % 16
        bin    == (result[offset + 1] % 128) * 16777216
                  + result[offset + 2] * 65536
                  + result[offset + 3] * 256
                  + result[offset + 4]
    IN  FormatDec(bin % Pow10(totp.digits), totp.digits)

\* What the QR code encodes: the otpauth://totp/ URL of the configuration.
OtpauthUrl(totp) ==
    [scheme |-> "otpauth://totp/", secret |-> totp.secret, digits |-> totp.digits,
     period |-> totp.step, algorithm |-> totp.algorithm,
     issuer |-> totp.issuer, account_name |-> totp.account_name]

NoUrl == OtpauthUrl(NoTotp)

\* totp.get_qr_base64(): the rendered image of the URL, or the renderer's
\* error; which one is the renderer's choice (`rendered`).
GetQrBase64(totp, rendered) ==
    IF rendered THEN Ok(OtpauthUrl(totp)) ELSE Err("QrRender")

\* ------------------------------------------------------------------ inputs

\* thread_rng().gen::<[u8; 32]>(): the byte arrays the generator is let draw,
\* byte i of pattern (a, b) being a + b * i mod 256.
Pattern(a, b) == [i \in 1..NumBytes |-> (a + b * i) % 256]

RandomDraws == {Pattern(0, 0), Pattern(171, 7)}

\* Secrets a caller may hand to verify besides the ones generate returned:
\* 15 bytes, and 9 characters that are 16 bytes.
ShortSecret == [i \in 1..(MinSecretLen - 1) |-> "a"]
WideSecret == [i \in 1..((MinSecretLen - 2) \div 2) |-> "é"] \o <<"b", "2">>

Labels == {<<"A">>, <<"a", ":", "b">>}

Threads == {"t1", "t2"}

\* The clock is read at the edges of each time step, and once before the epoch.
ClockValues == {t \in -1..MaxTime : t = -1 \/ t % Step \in {0, 1, Step - 1}}

\* ------------------------------------------------------------- the functions

\* generate_random_string, given the bytes drawn.
generate_random_string(random_bytes) == HexEncode(random_bytes)

\* generate, lines 41-47: the TOTP of the secret and the labels, or the error.
GenerateTotp(secret_string, issuer, account_name) ==
    LET r1 == Rfc6238WithDefaults(into_bytes(secret_string))
    IN  IF IsErr(r1) THEN r1
        ELSE LET r2 == RfcDigits(Unwrap(r1), Digits)
             IN  IF IsErr(r2) THEN r2
                 ELSE TotpFromRfc6238(
                          RfcAccountName(RfcIssuer(Unwrap(r2), issuer), account_name))

\* generate handing the secret back whether or not the image was rendered.
GenerateResultLeaky(qr_code, secret_string) ==
    IF IsOk(qr_code)
    THEN Ok([qr_code |-> Unwrap(qr_code), secret |-> secret_string])
    ELSE Ok([qr_code |-> NoUrl, secret |-> secret_string])

\* generate, lines 50-53: the pair returned, or the renderer's error.
GenerateResult(qr_code, secret_string) ==
    IF IsOk(qr_code)
    THEN Ok([qr_code |-> Unwrap(qr_code), secret |-> secret_string])
    ELSE Err("QrRender")

\* verify asking for 8 digits.
VerifyTotpEight(secret) ==
    LET r1 == Rfc6238WithDefaults(into_bytes(secret))
    IN  IF IsErr(r1) THEN r1
        ELSE LET r2 == RfcDigits(Unwrap(r1), 8)
             IN  IF IsErr(r2) THEN r2 ELSE TotpFromRfc6238(Unwrap(r2))

HexValue(ch) ==
    IF \E v \in 1..16 : HexDigits[v] = ch
    THEN (CHOOSE v \in 1..16 : HexDigits[v] = ch) - 1
    ELSE 0

\* verify decoding the hex string to the bytes drawn.
VerifyTotpDecoded(secret) ==
    LET raw == [i \in 1..(Len(secret) \div 2) |->
                   HexValue(secret[2 * i - 1]) * 16 + HexValue(secret[2 * i])]
        r1  == Rfc6238WithDefaults(raw)
    IN  IF IsErr(r1) THEN r1
        ELSE LET r2 == RfcDigits(Unwrap(r1), Digits)
             IN  IF IsErr(r2) THEN r2 ELSE TotpFromRfc6238(Unwrap(r2))

\* verify, lines 70-74: the TOTP of the secret, or the error.
VerifyTotp(secret) ==
    LET r1 == Rfc6238WithDefaults(into_bytes(secret))
    IN  IF IsErr(r1) THEN r1
        ELSE LET r2 == RfcDigits(Unwrap(r1), Digits)
             IN  IF IsErr(r2) THEN r2 ELSE TotpFromRfc6238(Unwrap(r2))

\* duration_since(UNIX_EPOCH).unwrap_or_default(): no error before the epoch.
DurationSinceEpochOrZero(clock) == Ok(IF clock < 0 THEN 0 ELSE clock)

\* SystemTime::now().duration_since(UNIX_EPOCH)?.as_secs() on a clock reading.
DurationSinceEpoch(clock) ==
    IF clock < 0 THEN Err("SystemTimeError") ELSE Ok(clock)

RECURSIVE StripZeros(_)
StripZeros(code) ==
    IF code # <<>> /\ Head(code) = "0" THEN StripZeros(Tail(code)) ELSE code

Trim(code) == SelectSeq(code, LAMBDA ch : ch # " ")

\* verify comparing the numbers the two strings spell.
VerifyResultNumeric(code, token) ==
    Ok(StripZeros(Trim(code)) = StripZeros(token))

\* verify, line 78: code == token.
VerifyResult(code, token) == Ok(code = token)

\* verify accepting the neighbouring steps too (the skew of check_current).
VerifyCheckSkew(code, totp, time) ==
    Ok(\E d \in {-1, 0, 1} :
          /\ time + d * totp.step >= 0
          /\ code = TotpGenerate(totp, time + d * totp.step))

\* verify refusing a code it has accepted in this step before.
VerifyCheckOnce(code, totp, time) ==
    Ok(/\ code = TotpGenerate(totp, time)
       /\ ~\E a \in accepted :
             /\ a.code = code
             /\ into_bytes(a.secret) = totp.secret
             /\ a.time \div totp.step = time \div totp.step)

\* verify, lines 76-78: the code against the token of the time read.
VerifyCheck(code, totp, time) == VerifyResult(code, TotpGenerate(totp, time))

\* ------------------------------------------------------------------- frames

Idle == [op |-> "none", pc |-> "idle", code |-> <<>>, secret |-> <<>>,
         issuer |-> <<>>, account_name |-> <<>>, random_bytes |-> <<>>,
         secret_string |-> <<>>, totp |-> NoTotp, clock |-> {}, time |-> 0,
         token |-> <<>>, result |-> NoResult]

Init ==
    /\ now = -1
    /\ calls = [c \in Threads |-> Idle]
    /\ issued = {}
    /\ accepted = {}
    /\ started = 0
    /\ drawn = <<>>
    /\ encoded = <<>>

Others == <<drawn, encoded>>

\* One frame for all threads.
FrameShared(c, call) == [d \in Threads |-> call]

\* The locals of a call live in the frame of the thread that runs it.
Frame(c, call) == [calls EXCEPT ![c] = call]

\* The code an authenticator shows for the key at a counter: RFC 6238 with
\* 6 digits, written out from RFC 4226 (sign the counter, cut dynamically,
\* keep 6 digits).
Rfc6238Code(key, counter) ==
    LET mac == HmacSha1(key, to_be_bytes(counter))
        at  == mac[20] % 16
        bin == (mac[at + 1] % 128) * 16777216 + mac[at + 2] * 65536
               + mac[at + 3] * 256 + mac[at + 4]
    IN  FormatDec(bin % 1000000, 6)

\* The codes an authenticator holding the secret string's bytes shows over
\* the clock's range.
ShownCodes(secret) ==
    {Rfc6238Code(into_bytes(secret), k) : k \in 0..(MaxTime \div 30)}

\* What a user may type for a code: the code, with a space before or after
\* it, with its leading zeros dropped, or with one digit more.
Typed(code) ==
    {code, <<" ">> \o code, code \o <<" ">>, StripZeros(code), <<"0">> \o code}

\* The codes a caller may hand to verify with the secret.
CodesFor(secret) ==
    LET shown == ShownCodes(secret)
    IN  shown
        \cup UNION {Typed(code) : code \in {x \in shown : Head(x) = "0"}}
        \cup {<<"0", "0", "0", "0", "0", "0">>}

\* The secrets a caller may hand to verify.
SecretsHeld == {p.secret : p \in issued} \cup {ShortSecret, WideSecret}

\* ----------------------------------------------------------------- actions

\* A thread that runs no call starts one.
Start(c) ==
    /\ calls[c].pc \in {"idle", "done"}
    /\ started < MaxCalls
    /\ started' = started + 1

\* generate_random_string(), lines 16-20
GenerateRandomString(c) ==
    /\ Start(c)
    /\ \E random_bytes \in RandomDraws :
          calls' = Frame(c, [Idle EXCEPT
                                !.op = "generate_random_string",
                                !.random_bytes = random_bytes,
                                !.result = Ok(generate_random_string(random_bytes)),
                                !.pc = "done"])
    /\ UNCHANGED <<now, issued, accepted, Others>>

\* generate(issuer, account_name) is called, line 40
GenerateSecret(c) ==
    /\ Start(c)
    /\ \E issuer \in Labels, account_name \in Labels, random_bytes \in RandomDraws :
          calls' = Frame(c, [Idle EXCEPT
                                !.op = "generate",
                                !.issuer = issuer, !.account_name = account_name,
                                !.random_bytes = random_bytes,
                                !.secret_string = generate_random_string(random_bytes),
                                !.pc = "totp"])
    /\ UNCHANGED <<now, issued, accepted, Others>>

\* lines 41-47
GenerateBuild(c) ==
    /\ calls[c].op = "generate" /\ calls[c].pc = "totp"
    /\ LET totp == GenerateTotp(calls[c].secret_string, calls[c].issuer,
                                calls[c].account_name)
       IN  calls' = Frame(c, IF IsErr(totp)
                                THEN [calls[c] EXCEPT !.result = totp, !.pc = "done"]
                                ELSE [calls[c] EXCEPT !.totp = Unwrap(totp),
                                                      !.pc = "qr"])
    /\ UNCHANGED <<now, issued, accepted, started, Others>>

\* lines 48-53; the caller keeps what it is given
GenerateQr(c) ==
    /\ calls[c].op = "generate" /\ calls[c].pc = "qr"
    /\ \E rendered \in BOOLEAN :
          LET result == GenerateResult(GetQrBase64(calls[c].totp, rendered),
                                       calls[c].secret_string)
          IN  /\ calls' = Frame(c, [calls[c] EXCEPT !.result = result,
                                                      !.pc = "done"])
              /\ issued' = IF IsOk(result) THEN issued \cup {Unwrap(result)}
                           ELSE issued
    /\ UNCHANGED <<now, accepted, started, Others>>

\* verify(code, secret) is called, lines 70-74
VerifyBuild(c) ==
    /\ Start(c)
    /\ \E secret \in SecretsHeld : \E code \in CodesFor(secret) :
          LET totp == VerifyTotp(secret)
              call == [Idle EXCEPT !.op = "verify", !.code = code, !.secret = secret]
          IN  calls' = Frame(c, IF IsErr(totp)
                                THEN [call EXCEPT !.result = totp, !.pc = "done"]
                                ELSE [call EXCEPT !.totp = Unwrap(totp),
                                                  !.pc = "time"])
    /\ UNCHANGED <<now, issued, accepted, Others>>

\* lines 75-78: the clock has moved on, or not, since it was last read; a
\* verification that succeeds goes on record
VerifyCompare(c) ==
    /\ calls[c].op = "verify" /\ calls[c].pc = "time"
    /\ \E clock \in ClockValues :
          /\ clock >= now
          /\ now' = clock
          /\ LET time == DurationSinceEpoch(clock)
             IN  IF IsErr(time)
                 THEN /\ calls' = Frame(c, [calls[c] EXCEPT !.clock = {clock},
                                                            !.result = time,
                                                            !.pc = "done"])
                      /\ UNCHANGED accepted
                 ELSE LET token  == TotpGenerate(calls[c].totp, Unwrap(time))
                          result == VerifyCheck(calls[c].code, calls[c].totp,
                                                Unwrap(time))
                      IN  /\ calls' = Frame(c, [calls[c] EXCEPT !.clock = {clock},
                                                                !.time = Unwrap(time),
                                                                !.token = token,
                                                                !.result = result,
                                                                !.pc = "done"])
                          /\ accepted' = IF result = Ok(TRUE)
                                         THEN accepted \cup {[code |-> calls[c].code,
                                                              secret |-> calls[c].secret,
                                                              time |-> Unwrap(time)]}
                                         ELSE accepted
    /\ UNCHANGED <<issued, started, Others>>

Next ==
    \/ \E c \in Threads : GenerateRandomString(c)
    \/ \E c \in Threads : GenerateSecret(c)
    \/ \E c \in Threads : GenerateBuild(c)
    \/ \E c \in Threads : GenerateQr(c)
    \/ \E c \in Threads : VerifyBuild(c)
    \/ \E c \in Threads : VerifyCompare(c)

Spec == Init /\ [][Next]_vars

\* ------------------------------------------------- the hex encoding alone

\* The byte arrays the encoding is applied to: every byte value at every
\* place, in runs of stride 0 to MaxStride.
HexDraws == {Pattern(a, b) : a \in 0..255, b \in 0..MaxStride}

InitHex ==
    /\ now = -1
    /\ calls = [c \in Threads |-> Idle]
    /\ issued = {}
    /\ accepted = {}
    /\ started = 0
    /\ drawn \in HexDraws
    /\ encoded = <<>>

\* generate_random_string(), lines 18-20, on the bytes drawn
EncodeDrawn ==
    /\ encoded = <<>>
    /\ encoded' = generate_random_string(drawn)
    /\ UNCHANGED <<now, calls, issued, accepted, started, drawn>>

NextHex == EncodeDrawn

SpecHex == InitHex /\ [][NextHex]_vars

\* ------------------------------------------------------------------ claims

\* The code expected for the secret string at a time, by the convention of
\* the hex string's UTF-8 bytes, a step of 30 seconds and epoch 0.
ExpectedCode(secret, time) == Rfc6238Code(into_bytes(secret), time \div 30)

VerifyDone(c) == calls[c].op = "verify" /\ calls[c].pc = "done"

\* The call has read the clock, at or after the epoch.
TimeRead(c) == calls[c].clock # {} /\ Unwrap([val |-> calls[c].clock]) >= 0

Generated == {p.secret : p \in issued}

\* C1: for a secret generate returned, verify of the code expected at the
\* step of the clock reading it makes returns Ok(true).
C1_RoundTrip ==
    \A c \in Threads :
        ( /\ VerifyDone(c)
          /\ TimeRead(c)
          /\ calls[c].secret \in Generated
          /\ calls[c].code = ExpectedCode(calls[c].secret, calls[c].time) )
        => calls[c].result = Ok(TRUE)

C1_Witness ==
    \E c \in Threads :
        /\ VerifyDone(c)
        /\ TimeRead(c)
        /\ calls[c].secret \in Generated
        /\ calls[c].code = ExpectedCode(calls[c].secret, calls[c].time)
        /\ calls[c].result = Ok(TRUE)

\* C2: verify accepts a code only as the code of the step that holds the
\* clock reading: the code of another step, the previous and the next among
\* them, that is not also the code of this step returns Ok(false), so a code
\* accepted at t is refused at t + 31 unless the later step has the same code.
C2_ZeroTolerance ==
    \A c \in Threads :
        (VerifyDone(c) /\ TimeRead(c)) =>
            /\ calls[c].result = Ok(TRUE)
                  => calls[c].code = ExpectedCode(calls[c].secret, calls[c].time)
            /\ \A d \in {-31, -30, 30, 31} :
                  ( /\ calls[c].time + d >= 0
                    /\ calls[c].code = ExpectedCode(calls[c].secret, calls[c].time + d)
                    /\ calls[c].code # ExpectedCode(calls[c].secret, calls[c].time) )
                  => calls[c].result = Ok(FALSE)

C2_Witness ==
    \E c \in Threads : \E a \in accepted :
        /\ VerifyDone(c)
        /\ TimeRead(c)
        /\ a.code = calls[c].code
        /\ a.secret = calls[c].secret
        /\ calls[c].time = a.time + 31
        /\ calls[c].result = Ok(FALSE)

\* C3: verify of a secret under 16 bytes, or on a clock reading before the
\* epoch, returns an error and no boolean, whatever the code; a wrong code
\* under a valid secret and a clock at or after the epoch returns Ok(false).
C3_VerifyFailsClosed ==
    \A c \in Threads :
        VerifyDone(c) =>
            /\ Len(into_bytes(calls[c].secret)) < 16
                  => (IsErr(calls[c].result) /\ calls[c].result.val = {})
            /\ (calls[c].clock # {} /\ ~TimeRead(c))
                  => (IsErr(calls[c].result) /\ calls[c].result.val = {})
            /\ ( /\ Len(into_bytes(calls[c].secret)) >= 16
                 /\ TimeRead(c)
                 /\ calls[c].code # ExpectedCode(calls[c].secret, calls[c].time) )
                  => calls[c].result = Ok(FALSE)

C3_Witness ==
    \E c, d \in Threads :
        /\ VerifyDone(c) /\ VerifyDone(d)
        /\ Len(into_bytes(calls[c].secret)) < 16
        /\ calls[c].result = Err("SecretTooSmall")
        /\ calls[d].clock = {-1}
        /\ calls[d].result = Err("SystemTimeError")

GenerateDone(c) == calls[c].op = "generate" /\ calls[c].pc = "done"

\* C4: generate that fails returns an error and neither secret nor image; a
\* label the TOTP refuses makes it fail; generate that succeeds returns the
\* secret string it drew and the image of the configuration built from that
\* string's bytes, and only such pairs reach the caller.
C4_GenerateFailsClosed ==
    /\ \A c \in Threads :
          GenerateDone(c) =>
              /\ (Contains(calls[c].issuer, ":") \/ Contains(calls[c].account_name, ":"))
                    => IsErr(calls[c].result)
              /\ IsErr(calls[c].result) => calls[c].result.val = {}
              /\ IsOk(calls[c].result) =>
                    LET pair == Unwrap(calls[c].result)
                    IN  /\ pair.secret = generate_random_string(calls[c].random_bytes)
                        /\ pair.qr_code.scheme = "otpauth://totp/"
                        /\ pair.qr_code.secret = into_bytes(pair.secret)
                        /\ pair.qr_code.issuer = calls[c].issuer
                        /\ pair.qr_code.account_name = calls[c].account_name
                        /\ pair \in issued
    /\ \A pair \in issued :
          /\ pair.qr_code.scheme = "otpauth://totp/"
          /\ pair.qr_code.secret = into_bytes(pair.secret)

C4_Witness ==
    \E c, d \in Threads :
        /\ GenerateDone(c) /\ GenerateDone(d)
        /\ calls[c].result = Err("QrRender")
        /\ IsOk(calls[d].result)
        /\ Unwrap(calls[d].result) \in issued

LowerHex == <<"0", "1", "2", "3", "4", "5", "6", "7", "8", "9",
              "a", "b", "c", "d", "e", "f">>

IsLowerHex(ch) == \E v \in 1..16 : LowerHex[v] = ch

LowerHexValue(ch) == (CHOOSE v \in 1..16 : LowerHex[v] = ch) - 1

\* C5: the string generate_random_string returns has 64 characters, all of
\* 0-9a-f, and characters 2i-1 and 2i spell byte i in hex, high digit first.
C5_HexString ==
    encoded # <<>> =>
        /\ Len(drawn) = 32
        /\ Len(encoded) = 64
        /\ \A k \in 1..Len(encoded) : IsLowerHex(encoded[k])
        /\ \A i \in 1..Len(drawn) :
              LowerHexValue(encoded[2 * i - 1]) * 16 + LowerHexValue(encoded[2 * i])
                  = drawn[i]

C5_Witness ==
    /\ encoded # <<>>
    /\ \E i \in 1..Len(drawn) : drawn[i] < 16
    /\ \E i \in 1..Len(drawn) : drawn[i] > 159

\* C6: a code verify has accepted is accepted again by every verify of the
\* same code and secret that reads the clock in the same step.
C6_NoReplayProtection ==
    \A c \in Threads :
        (VerifyDone(c) /\ TimeRead(c)) =>
            \A a \in accepted :
                ( /\ a.code = calls[c].code
                  /\ a.secret = calls[c].secret
                  /\ a.time \div 30 = calls[c].time \div 30 )
                => calls[c].result = Ok(TRUE)

C6_Witness ==
    \E c \in Threads : \E a \in accepted :
        /\ VerifyDone(c)
        /\ TimeRead(c)
        /\ a.code = calls[c].code
        /\ a.secret = calls[c].secret
        /\ a.time \div 30 = calls[c].time \div 30
        /\ a.time # calls[c].time
        /\ calls[c].result = Ok(TRUE)

\* C7: two verify calls on one secret that read the clock in the same step
\* compute the same token, and with the same code return the same result.
C7_SameStepSameCode ==
    \A c, d \in Threads :
        ( /\ VerifyDone(c) /\ VerifyDone(d)
          /\ TimeRead(c) /\ TimeRead(d)
          /\ calls[c].secret = calls[d].secret
          /\ calls[c].time \div 30 = calls[d].time \div 30 )
        => /\ calls[c].token = calls[d].token
           /\ calls[c].code = calls[d].code => calls[c].result = calls[d].result

C7_Witness ==
    \E c, d \in Threads :
        /\ VerifyDone(c) /\ VerifyDone(d)
        /\ TimeRead(c) /\ TimeRead(d)
        /\ calls[c].secret = calls[d].secret
        /\ calls[c].code = calls[d].code
        /\ calls[c].time # calls[d].time
        /\ calls[c].time \div 30 = calls[d].time \div 30
        /\ calls[c].result = calls[d].result

\* verify run alone on a code, a secret and what the clock reads.
VerifyAlone(code, secret, clock) ==
    LET totp == VerifyTotp(secret)
    IN  IF IsErr(totp) THEN totp
        ELSE LET time == DurationSinceEpoch(clock)
             IN  IF IsErr(time) THEN time
                 ELSE VerifyCheck(code, Unwrap(totp), Unwrap(time))

\* generate run alone on its labels, the bytes drawn and the renderer's choice.
GenerateAlone(issuer, account_name, random_bytes, rendered) ==
    LET secret_string == generate_random_string(random_bytes)
        totp == GenerateTotp(secret_string, issuer, account_name)
    IN  IF IsErr(totp) THEN totp
        ELSE GenerateResult(GetQrBase64(Unwrap(totp), rendered), secret_string)

SameResult(r1, r2) ==
    /\ r1.tag = r2.tag
    /\ r1.tag = "Ok" => r1.val = r2.val
    /\ r1.tag = "Err" => r1.err = r2.err

\* Every finished call returned what it returns run alone on its own
\* arguments, its own draw and its own clock reading.
ResultsAsAlone ==
    \A c \in Threads :
        calls[c].pc = "done" =>
            CASE calls[c].op = "generate_random_string" ->
                    calls[c].result = Ok(generate_random_string(calls[c].random_bytes))
              [] calls[c].op = "generate" ->
                    \E rendered \in BOOLEAN :
                        SameResult(calls[c].result,
                                   GenerateAlone(calls[c].issuer, calls[c].account_name,
                                                 calls[c].random_bytes, rendered))
              [] calls[c].op = "verify" ->
                    IF calls[c].clock = {}
                    THEN /\ IsErr(VerifyTotp(calls[c].secret))
                         /\ SameResult(calls[c].result, VerifyTotp(calls[c].secret))
                    ELSE SameResult(calls[c].result,
                                    VerifyAlone(calls[c].code, calls[c].secret,
                                                Unwrap([val |-> calls[c].clock])))

\* A step of one thread's call leaves the frame of every other thread alone.
OwnFrameOnly ==
    \A c \in Threads :
        calls'[c] # calls[c] => \A d \in Threads \ {c} : calls'[d] = calls[d]

\* C8: under every interleaving of the calls of the threads, no step of a
\* call changes another call's frame, and each call returns what it returns
\* run alone on its own arguments, random draw and clock reading.
C8_NoInterference == []ResultsAsAlone /\ [][OwnFrameOnly]_vars

\* Two calls in flight at once: a verify that has its TOTP and has not read
\* the clock, a generate that has its TOTP and has not rendered it.
C8_Witness ==
    \E c, d \in Threads :
        /\ c # d
        /\ calls[c].op = "verify" /\ calls[c].pc = "time"
        /\ calls[d].op = "generate" /\ calls[d].pc = "qr"

\* C9: the configuration verify builds from a secret generate returned has the
\* UTF-8 bytes of the secret string, 6 digits, the 30-second step and SHA-1,
\* as the configuration generate encoded in the QR code has.
C9_SameConfiguration ==
    \A c \in Threads :
        (calls[c].op = "verify" /\ calls[c].pc \in {"time", "done"}) =>
            \A pair \in issued :
                pair.secret = calls[c].secret =>
                    /\ calls[c].totp.secret = pair.qr_code.secret
                    /\ calls[c].totp.secret = into_bytes(pair.secret)
                    /\ calls[c].totp.digits = pair.qr_code.digits
                    /\ calls[c].totp.digits = 6
                    /\ calls[c].totp.step = pair.qr_code.period
                    /\ calls[c].totp.step = 30
                    /\ calls[c].totp.algorithm = pair.qr_code.algorithm
                    /\ calls[c].totp.algorithm = "SHA1"

C9_Witness ==
    \E c \in Threads : \E pair \in issued :
        /\ VerifyDone(c)
        /\ pair.secret = calls[c].secret
        /\ calls[c].totp.secret = pair.qr_code.secret
        /\ Len(calls[c].totp.secret) = 64

\* C10: under a valid secret and a clock at or after the epoch, verify returns
\* Ok(true) exactly when the code is, character for character, the expected
\* code of 6 characters; a code with a space around it, with a leading zero
\* dropped or of another length returns Ok(false).
C10_ExactEquality ==
    \A c \in Threads :
        (VerifyDone(c) /\ IsOk(calls[c].result)) =>
            LET expected == ExpectedCode(calls[c].secret, calls[c].time)
            IN  /\ Len(expected) = 6
                /\ calls[c].result =
                      Ok( /\ Len(calls[c].code) = 6
                          /\ \A k \in 1..6 : calls[c].code[k] = expected[k] )
                /\ (Len(calls[c].code) # 6 \/ Contains(calls[c].code, " "))
                      => calls[c].result = Ok(FALSE)

C10_Witness ==
    \E c, d \in Threads :
        /\ VerifyDone(c) /\ VerifyDone(d)
        /\ IsOk(calls[c].result) /\ IsOk(calls[d].result)
        /\ Head(calls[c].token) = "0"
        /\ calls[c].code = StripZeros(calls[c].token)
        /\ calls[c].result = Ok(FALSE)
        /\ calls[d].code = <<" ">> \o calls[d].token
        /\ calls[d].result = Ok(FALSE)

====
